---- MODULE Spec2Model ----
(***************************************************************************)
(* State-machine model of the VibeSync wizard front end:                   *)
(*   - the step controller  Home            (frontend/src/app/page.tsx)    *)
(*   - the HTTP client                      (frontend/src/lib/api.ts)      *)
(*   - the upload validator VideoUpload     (components/VideoUpload.tsx)   *)
(*   - the variation picker VariationPicker (components/VariationPicker)   *)
(* Backend calls are promises in flight: each is a record of the set       *)
(* inflight and settles in a later step, in any order.                     *)
(***************************************************************************)
EXTENDS Integers, Sequences, FiniteSets, TLC

\* ------------------------------------------------------------------ bounds
\* total number of requests the user starts in a behaviour: duration probes
\* (each issues at most one analyze call), generate calls and merge calls
MaxRequests == 3
\* The same count in the behaviours of RaceSpec.
MaxRaceRequests == 6
\* The same count in the behaviours of RetrySpec.
MaxRetryRequests == 4

\* --------------------------------------------------------- program constants
MAX_SIZE_MB == 50
MAX_DURATION_S == 30
DEFAULT_BPM == 120
BYTES_PER_MB == 1048576
ALLOWED_TYPES == {"video/mp4", "video/quicktime", "video/webm", "video/x-msvideo"}

\* null / "no value" of a nullable state cell; a present value v is <<v>>
Null == <<>>
Some(v) == <<v>>
Get(cell) == cell[1]

\* ------------------------------------------------------------ input domains
\* Files the user can choose: name -> declared MIME type, byte size and the
\* duration the metadata probe reports (in tenths of a second).
Files ==
  {"clip.mp4", "edge.mov", "notes.pdf", "huge.webm", "long.mp4", "tiny.gif"}

FileType(f) ==
  CASE f = "clip.mp4" -> "video/mp4"
    [] f = "edge.mov" -> "video/quicktime"
    [] f = "notes.pdf" -> "application/pdf"
    [] f = "huge.webm" -> "video/webm"
    [] f = "long.mp4" -> "video/mp4"
    [] f = "tiny.gif" -> "image/gif"

FileSize(f) ==
  CASE f = "clip.mp4" -> 10 * BYTES_PER_MB
    [] f = "edge.mov" -> MAX_SIZE_MB * BYTES_PER_MB
    [] f = "notes.pdf" -> 60 * BYTES_PER_MB
    [] f = "huge.webm" -> MAX_SIZE_MB * BYTES_PER_MB + 1
    [] f = "long.mp4" -> 10 * BYTES_PER_MB
    [] f = "tiny.gif" -> 1

FileDuration10(f) ==
  CASE f = "clip.mp4" -> 120
    [] f = "edge.mov" -> MAX_DURATION_S * 10
    [] f = "notes.pdf" -> 0
    [] f = "huge.webm" -> 50
    [] f = "long.mp4" -> 456
    [] f = "tiny.gif" -> 20

\* The analysis the backend may return for a file (VideoAnalysis); the field
\* file is the request it answers. style_suggestions is a nullable cell: the
\* response for edge.mov carries no style_suggestions member.
AnalysisOf(f) ==
  IF f = "edge.mov"
  THEN [file |-> f, bpm |-> 90, overall_mood |-> "calm",
        primary_prompt |-> "soft piano", negative_prompt |-> "no drums",
        segments |-> <<"seg-edge-1">>, style_suggestions |-> Null]
  ELSE [file |-> f, bpm |-> 128, overall_mood |-> "energetic",
        primary_prompt |-> "driving synth", negative_prompt |-> "no vocals",
        segments |-> <<"seg-1", "seg-2">>,
        style_suggestions |-> Some(<<"Cinematic">>)]

\* MusicVariation
Variation(id) == [file_id |-> id, audio_url |-> <<"audio", id, "stream">>]

\* The variation sequences the backend may return for one generate call.
VariationResults ==
  { <<Variation("a1"), Variation("a2"), Variation("a3")>>,
    <<Variation("b1")>>,
    <<>> }

\* Values the user may type into the composition fields.
UserPrompts == {"lofi beat"}
UserNegativePrompts == {"no guitar"}
UserBpms == {140}

MergeUrls == {"merged-1.mp4", "merged-2.mp4"}
CreditValues == {3}

\* How a request can fail (api.ts): a non-2xx response whose JSON body carries
\* a detail, one without detail, one whose body does not parse; fetch itself
\* rejecting (network exception); a 2xx response whose body does not parse.
HttpFailures == {"detail", "nodetail", "badbody"}
Exceptions == {"network", "badjson"}
\* failures of analyze / generate / merge
Failures == HttpFailures \cup {"network"}
\* failures of getCredits / initializeCredits (any non-2xx is one case)
CreditsFailures == {"non2xx"} \cup Exceptions

\* userIdRef: crypto.randomUUID(), or "anonymous" where crypto is undefined
UserIds == {"uuid-1"}

\* A pending probe is a detached <video> element loading the metadata of a
\* file; it is live while the VideoUpload instance that started it is mounted.
\* probes[<<f, live>>] is the number of such probes pending.
ProbeKeys == Files \X BOOLEAN

Steps == {"upload", "analyzing", "edit", "generating", "pick", "merging", "done"}

VARIABLES
  step, videoFile, videoUrl, analysis, prompt, negativePrompt, bpm,
  variations, selectedVariation, mergedVideoUrl, error, credits,
  userId,            \* userIdRef.current
  initCredits,       \* the initializeCredits(userId) call of the mount effect
  inflight,          \* analyze / generate / merge / getCredits calls pending
  nCalls,            \* number of analyze / generate / merge calls issued
  nRequests,         \* number of probes, generate and merge calls started
  probes,            \* duration probes pending (detached video elements)
  validationError,   \* VideoUpload local state
  selected, playing, \* VariationPicker local state
  activeIndex,       \* LoadingState local state
  timers             \* LoadingState: the substep indexes its pending
                     \* timeouts will set

ctl == <<step, videoFile, videoUrl, analysis, prompt, negativePrompt, bpm,
         variations, selectedVariation, mergedVideoUrl, error>>
loading == <<activeIndex, timers>>
views == <<validationError, selected, playing, activeIndex, timers>>
vars == <<step, videoFile, videoUrl, analysis, prompt, negativePrompt, bpm,
          variations, selectedVariation, mergedVideoUrl, error, credits,
          userId, initCredits, inflight, nCalls, nRequests, probes,
          validationError, selected, playing, activeIndex, timers>>

\* The controller state as one value (the useState cells of Home).
Controller ==
  [step |-> step, videoFile |-> videoFile, videoUrl |-> videoUrl,
   analysis |-> analysis, prompt |-> prompt, negativePrompt |-> negativePrompt,
   bpm |-> bpm, variations |-> variations,
   selectedVariation |-> selectedVariation,
   mergedVideoUrl |-> mergedVideoUrl, error |-> error]

Init ==
  /\ step = "upload"
  /\ videoFile = Null
  /\ videoUrl = ""
  /\ analysis = Null
  /\ prompt = ""
  /\ negativePrompt = ""
  /\ bpm = DEFAULT_BPM
  /\ variations = <<>>
  /\ selectedVariation = Null
  /\ mergedVideoUrl = ""
  /\ error = ""
  /\ credits = Null
  /\ userId \in UserIds
  /\ initCredits = [status |-> "pending", userId |-> userId]
  /\ inflight = {}
  /\ nCalls = 0
  /\ nRequests = 0
  /\ probes = [k \in ProbeKeys |-> 0]
  /\ validationError = ""
  /\ selected = ""
  /\ playing = Null
  /\ activeIndex = 0
  /\ timers = {}

\* ------------------------------------------------------------ api.ts errors
\* The message of the Error an api function throws when its request fails.
\*   !res.ok: err = await res.json().catch(() => ({detail: <generic>}));
\*            throw new Error(err.detail || <fallback>)
\*   fetch rejecting / res.json() rejecting on a 2xx: that exception itself.
GenericMessage(kind) ==
  CASE kind = "analyze" -> "Analysis failed"
    [] kind = "generate" -> "Generation failed"
    [] kind = "merge" -> "Merge failed"

\* (mutant of FallbackMessage: the fallback for a body without detail is the
\* same generic message as for an unparsable body)
FallbackSameAsGeneric(kind) == GenericMessage(kind)

FallbackMessage(kind) ==
  CASE kind = "analyze" -> "Video analysis failed"
    [] kind = "generate" -> "Music generation failed"
    [] kind = "merge" -> "Video merge failed"

\* the exception of a rejected fetch / of res.json() on an unparsable body
ExceptionMessage(failure) ==
  CASE failure = "network" -> "Failed to fetch"
    [] failure = "badjson" -> "Unexpected token < in JSON"

ThrownMessage(kind, failure) ==
  CASE failure = "detail" -> "Quota exceeded"
    [] failure = "nodetail" -> FallbackMessage(kind)
    [] failure = "badbody" -> GenericMessage(kind)
    [] OTHER -> ExceptionMessage(failure)

\* getCredits / initializeCredits: "returns" c, or "throws".
\*   if (!res.ok) return 0;  const data = await res.json();  return data.credits;
CreditsOutcomes ==
  [kind : {"ok"}, credits : CreditValues] \cup [kind : CreditsFailures]

CreditsResult(o) ==
  IF o.kind = "ok" THEN [returns |-> TRUE, value |-> o.credits]
  ELSE IF o.kind = "non2xx" THEN [returns |-> TRUE, value |-> 0]
  ELSE [returns |-> FALSE, message |-> ExceptionMessage(o.kind)]

\* ------------------------------------------------------------- re-rendering
\* The step views live under <div key={step}>: a change of step unmounts the
\* old view and mounts the new one with fresh local state.
FirstId(vs) == IF Len(vs) > 0 THEN vs[1].file_id ELSE ""

ValidationErrorAfter(s2) ==
  IF s2 = step /\ s2 = "upload" THEN validationError ELSE ""
SelectedAfter(s2, vs2) ==
  IF s2 # "pick" THEN "" ELSE IF step = "pick" THEN selected ELSE FirstId(vs2)
PlayingAfter(s2) ==
  IF s2 = "pick" /\ step = "pick" THEN playing ELSE Null
\* a probe started by an unmounted VideoUpload can no longer set its error
ProbesAfter(ps, s2) ==
  IF s2 = step THEN ps
  ELSE [k \in ProbeKeys |->
          IF k[2] THEN 0 ELSE ps[k] + ps[<<k[1], TRUE>>]]

\* calls are numbered in the order they are issued
FreshId == nCalls + 1

\* LoadingState: the substeps and stepDurations props Home passes in the
\* loading view of a step (none in merging, no loading view elsewhere)
Substeps(s) ==
  CASE s = "analyzing" ->
         <<"Processing video", "Detecting mood & energy",
           "Analyzing cut rhythm", "Composing music prompt">>
    [] s = "generating" ->
         <<"Preparing prompts", "Composing track 1 of 3",
           "Composing track 2 of 3", "Composing track 3 of 3">>
    [] OTHER -> <<>>
StepDurations(s) ==
  IF s = "generating" THEN <<3000, 18000, 18000>> ELSE <<>>

\* const defaults = 2200 (milliseconds)
defaults == 2200

\* stepDurations?.[i] ?? defaults, for the step from substep i - 1 to i
DurationOf(s, i) ==
  IF i <= Len(StepDurations(s)) THEN StepDurations(s)[i] ELSE defaults

\* the delay of the timeout that sets the index to i
RECURSIVE Cumulative(_, _)
Cumulative(s, i) ==
  IF i = 0 THEN 0 ELSE Cumulative(s, i - 1) + DurationOf(s, i)

\* the timeouts the effect of LoadingState starts:
\*   for (i = 0; i < substeps.length - 1; i++) setTimeout(setActiveIndex(i + 1))
TimersOf(s) == 1..(Len(Substeps(s)) - 1)

\* LoadingState after Home rendered with step s2. Home passes substeps and
\* stepDurations as array literals, new arrays on every render of Home, and
\* they are the dependencies of the effect: whether the view was just
\* mounted or was mounted already, the cleanup clears the pending timeouts
\* and the effect runs: setActiveIndex(0) and new timeouts.
LoadingAfter(s2) ==
  /\ activeIndex' = 0
  /\ timers' = TimersOf(s2)

Rerender(s2, vs2) ==
  /\ validationError' = ValidationErrorAfter(s2)
  /\ selected' = SelectedAfter(s2, vs2)
  /\ playing' = PlayingAfter(s2)
  /\ LoadingAfter(s2)

\* ------------------------------------------------------------------ upload
BlobUrl(f) == "blob:" \o f

\* (mutant of validate: the size is tested before the type)
validateSizeFirst(f) ==
  IF FileSize(f) > MAX_SIZE_MB * BYTES_PER_MB
  THEN "File too large. Maximum is " \o ToString(MAX_SIZE_MB) \o "MB."
  ELSE IF FileType(f) \notin ALLOWED_TYPES
  THEN "Unsupported format. Use MP4, MOV, WebM, or AVI."
  ELSE ""

\* (mutant of validate: a file of exactly the ceiling is rejected as well)
validateRejectingCeiling(f) ==
  IF FileType(f) \notin ALLOWED_TYPES
  THEN "Unsupported format. Use MP4, MOV, WebM, or AVI."
  ELSE IF FileSize(f) >= MAX_SIZE_MB * BYTES_PER_MB
  THEN "File too large. Maximum is " \o ToString(MAX_SIZE_MB) \o "MB."
  ELSE ""

\* VideoUpload.validate
validate(f) ==
  IF FileType(f) \notin ALLOWED_TYPES
  THEN "Unsupported format. Use MP4, MOV, WebM, or AVI."
  ELSE IF FileSize(f) > MAX_SIZE_MB * BYTES_PER_MB
  THEN "File too large. Maximum is " \o ToString(MAX_SIZE_MB) \o "MB."
  ELSE ""

\* (mutant of RoundSeconds: the duration is truncated, not rounded)
FloorSeconds(d10) == d10 \div 10

\* Math.round of a duration given in tenths of a second
RoundSeconds(d10) == (d10 + 5) \div 10

DurationMessage(d10) ==
  "Video is " \o ToString(RoundSeconds(d10)) \o "s. Maximum is "
    \o ToString(MAX_DURATION_S) \o "s."

\* VideoUpload.handleFile: the user drops or selects a file in the upload view
\* (while fewer than max requests have been started)
HandleFileUpTo(f, max) ==
  /\ step = "upload"
  /\ IF validate(f) # ""
     THEN /\ validationError' = validate(f)
          /\ UNCHANGED <<probes, nRequests>>
     ELSE /\ nRequests < max
          /\ validationError' = ""
          /\ probes' = [probes EXCEPT ![<<f, TRUE>>] = @ + 1]
          /\ nRequests' = nRequests + 1
  /\ UNCHANGED <<ctl, credits, userId, initCredits, inflight, nCalls,
                 selected, playing, loading>>

HandleFile(f) == HandleFileUpTo(f, MaxRequests)

\* (mutant of handleUpload: the previous error is left in place)
handleUploadKeepingError(f) ==
  /\ videoFile' = Some(f)
  /\ videoUrl' = BlobUrl(f)
  /\ error' = error
  /\ step' = "analyzing"
  /\ nCalls' = nCalls + 1
  /\ nRequests' = nRequests
  /\ inflight' = inflight \cup
       {[id |-> FreshId, kind |-> "analyze", file |-> f,
         userId |-> userId, pre |-> Controller]}
  /\ Rerender("analyzing", variations)
  /\ UNCHANGED <<analysis, prompt, negativePrompt, bpm, variations,
                 selectedVariation, mergedVideoUrl>>

\* Home.handleUpload(file), up to its await
handleUpload(f) ==
  /\ videoFile' = Some(f)
  /\ videoUrl' = BlobUrl(f)
  /\ error' = ""
  /\ step' = "analyzing"
  /\ nCalls' = nCalls + 1
  /\ nRequests' = nRequests
  /\ inflight' = inflight \cup
       {[id |-> FreshId, kind |-> "analyze", file |-> f,
         userId |-> userId, pre |-> Controller]}
  /\ Rerender("analyzing", variations)
  /\ UNCHANGED <<analysis, prompt, negativePrompt, bpm, variations,
                 selectedVariation, mergedVideoUrl>>

\* (mutant of ProbeLoaded: a duration of exactly the ceiling is rejected as
\* well)
ProbeLoadedRejectingCeiling(f, live) ==
  /\ probes[<<f, live>>] > 0
  /\ IF FileDuration10(f) >= MAX_DURATION_S * 10
     THEN /\ validationError' =
               IF live THEN DurationMessage(FileDuration10(f))
               ELSE validationError
          /\ probes' = [probes EXCEPT ![<<f, live>>] = @ - 1]
          /\ UNCHANGED <<ctl, inflight, nCalls, nRequests, selected, playing,
                         loading>>
     ELSE /\ handleUpload(f)
          /\ probes' = ProbesAfter([probes EXCEPT ![<<f, live>>] = @ - 1],
                                   "analyzing")
  /\ UNCHANGED <<credits, userId, initCredits>>

\* VideoUpload.checkDuration: video.onloadedmetadata of a pending probe
ProbeLoaded(f, live) ==
  /\ probes[<<f, live>>] > 0
  /\ IF FileDuration10(f) > MAX_DURATION_S * 10
     THEN /\ validationError' =
               IF live THEN DurationMessage(FileDuration10(f))
               ELSE validationError
          /\ probes' = [probes EXCEPT ![<<f, live>>] = @ - 1]
          /\ UNCHANGED <<ctl, inflight, nCalls, nRequests, selected, playing,
                         loading>>
     ELSE /\ handleUpload(f)
          /\ probes' = ProbesAfter([probes EXCEPT ![<<f, live>>] = @ - 1],
                                   "analyzing")
  /\ UNCHANGED <<credits, userId, initCredits>>

\* (mutant of SeedComposition: the bpm is not seeded)
SeedCompositionWithoutBpm(result) ==
  /\ prompt' = result.primary_prompt
  /\ negativePrompt' = result.negative_prompt
  /\ bpm' = bpm

\* setPrompt(result.primary_prompt); setNegativePrompt(result.negative_prompt);
\* setBpm(result.bpm)
SeedComposition(result) ==
  /\ prompt' = result.primary_prompt
  /\ negativePrompt' = result.negative_prompt
  /\ bpm' = result.bpm

\* (mutant of AnalyzeResolve: a result that arrives when the step is no
\* longer analyzing is discarded)
AnalyzeResolveIfAnalyzing(c, result) ==
  /\ c \in inflight /\ c.kind = "analyze"
  /\ inflight' = inflight \ {c}
  /\ IF step = "analyzing"
     THEN /\ analysis' = Some(result)
          /\ SeedComposition(result)
          /\ step' = "edit"
          /\ Rerender("edit", variations)
          /\ probes' = ProbesAfter(probes, "edit")
     ELSE UNCHANGED <<analysis, prompt, negativePrompt, bpm, step, views,
                      probes>>
  /\ UNCHANGED <<videoFile, videoUrl, variations, selectedVariation,
                 mergedVideoUrl, error, credits, userId, initCredits,
                 nCalls, nRequests>>

\* Home.handleUpload after the await: analyzeVideo resolved with result
AnalyzeResolve(c, result) ==
  /\ c \in inflight /\ c.kind = "analyze"
  /\ analysis' = Some(result)
  /\ SeedComposition(result)
  /\ step' = "edit"
  /\ nCalls' = nCalls
  /\ nRequests' = nRequests
  /\ inflight' = inflight \ {c}
  /\ Rerender("edit", variations)
  /\ probes' = ProbesAfter(probes, "edit")
  /\ UNCHANGED <<videoFile, videoUrl, variations, selectedVariation,
                 mergedVideoUrl, error, credits, userId, initCredits>>

\* (mutant of AnalyzeReject: the catch also puts back the video file and the
\* preview URL of before the upload intent)
AnalyzeRejectRestoringFile(c, failure) ==
  /\ c \in inflight /\ c.kind = "analyze"
  /\ error' = ThrownMessage("analyze", failure)
  /\ step' = "upload"
  /\ videoFile' = c.pre.videoFile
  /\ videoUrl' = c.pre.videoUrl
  /\ inflight' = inflight \ {c}
  /\ Rerender("upload", variations)
  /\ probes' = ProbesAfter(probes, "upload")
  /\ UNCHANGED <<analysis, prompt, negativePrompt, bpm, variations,
                 selectedVariation, mergedVideoUrl, credits, userId,
                 initCredits, nCalls, nRequests>>

\* Home.handleUpload catch: analyzeVideo threw
AnalyzeReject(c, failure) ==
  /\ c \in inflight /\ c.kind = "analyze"
  /\ error' = ThrownMessage("analyze", failure)
  /\ step' = "upload"
  /\ nCalls' = nCalls
  /\ nRequests' = nRequests
  /\ inflight' = inflight \ {c}
  /\ Rerender("upload", variations)
  /\ probes' = ProbesAfter(probes, "upload")
  /\ UNCHANGED <<videoFile, videoUrl, analysis, prompt, negativePrompt, bpm,
                 variations, selectedVariation, mergedVideoUrl, credits,
                 userId, initCredits>>

\* -------------------------------------------------------------------- edit
\* The edit view is rendered when step === "edit" && analysis.
EditViewShown == step = "edit" /\ analysis # Null

\* onPromptChange / onNegativePromptChange / onBpmChange
SetPrompt(v) ==
  /\ EditViewShown
  /\ prompt' = v
  /\ UNCHANGED <<step, videoFile, videoUrl, analysis, negativePrompt, bpm,
                 variations, selectedVariation, mergedVideoUrl, error,
                 credits, userId, initCredits, inflight, nCalls, nRequests, probes, views>>

SetNegativePrompt(v) ==
  /\ EditViewShown
  /\ negativePrompt' = v
  /\ UNCHANGED <<step, videoFile, videoUrl, analysis, prompt, bpm,
                 variations, selectedVariation, mergedVideoUrl, error,
                 credits, userId, initCredits, inflight, nCalls, nRequests, probes, views>>

\* (mutant of SetBpm: the edit is written into the stored analysis as well)
SetBpmIntoAnalysis(v) ==
  /\ EditViewShown
  /\ bpm' = v
  /\ analysis' = Some([Get(analysis) EXCEPT !.bpm = v])
  /\ UNCHANGED <<step, videoFile, videoUrl, prompt, negativePrompt,
                 variations, selectedVariation, mergedVideoUrl, error,
                 credits, userId, initCredits, inflight, nCalls, nRequests, probes, views>>

SetBpm(v) ==
  /\ EditViewShown
  /\ bpm' = v
  /\ UNCHANGED <<step, videoFile, videoUrl, analysis, prompt, negativePrompt,
                 variations, selectedVariation, mergedVideoUrl, error,
                 credits, userId, initCredits, inflight, nCalls, nRequests, probes, views>>

\* analysis.style_suggestions || []
StyleSuggestionsOrEmpty(a) ==
  IF a.style_suggestions = Null THEN <<>> ELSE Get(a.style_suggestions)

\* (mutant of GenerateArguments: the call is made with the analysis defaults
\* instead of the composition as edited)
GenerateArgumentsFromAnalysis ==
  [prompt |-> Get(analysis).primary_prompt,
   negativePrompt |-> Get(analysis).negative_prompt,
   mood |-> Get(analysis).overall_mood,
   bpm |-> Get(analysis).bpm,
   userId |-> userId,
   styleSuggestions |-> StyleSuggestionsOrEmpty(Get(analysis))]

\* the arguments of generateVariations(prompt, negativePrompt,
\*   analysis.overall_mood, bpm, userIdRef.current,
\*   analysis.style_suggestions || [])
GenerateArguments ==
  [prompt |-> prompt,
   negativePrompt |-> negativePrompt,
   mood |-> Get(analysis).overall_mood,
   bpm |-> bpm,
   userId |-> userId,
   styleSuggestions |-> StyleSuggestionsOrEmpty(Get(analysis))]

\* (mutant of handleGenerate: the test of analysis comes after setError and
\* setStep instead of before them)
handleGenerateGuardAfterSetters ==
  IF analysis = Null
  THEN /\ error' = ""
       /\ step' = "generating"
       /\ Rerender("generating", variations)
       /\ probes' = ProbesAfter(probes, "generating")
       /\ UNCHANGED <<videoFile, videoUrl, analysis, prompt, negativePrompt,
                      bpm, variations, selectedVariation, mergedVideoUrl,
                      inflight, nCalls, nRequests>>
  ELSE /\ error' = ""
       /\ step' = "generating"
       /\ nCalls' = nCalls + 1
       /\ nRequests' = nRequests + 1
       /\ inflight' = inflight \cup
            {[id |-> FreshId, kind |-> "generate",
              prompt |-> GenerateArguments.prompt,
              negativePrompt |-> GenerateArguments.negativePrompt,
              mood |-> GenerateArguments.mood,
              bpm |-> GenerateArguments.bpm,
              userId |-> GenerateArguments.userId,
              styleSuggestions |-> GenerateArguments.styleSuggestions,
              pre |-> Controller]}
       /\ Rerender("generating", variations)
       /\ probes' = ProbesAfter(probes, "generating")
       /\ UNCHANGED <<videoFile, videoUrl, analysis, prompt, negativePrompt,
                      bpm, variations, selectedVariation, mergedVideoUrl>>

\* Home.handleGenerate, up to its first await
handleGenerate ==
  IF analysis = Null
  THEN UNCHANGED <<ctl, inflight, nCalls, nRequests, probes, views>>
  ELSE /\ error' = ""
       /\ step' = "generating"
       /\ nCalls' = nCalls + 1
       /\ nRequests' = nRequests + 1
       /\ inflight' = inflight \cup
            {[id |-> FreshId, kind |-> "generate",
              prompt |-> GenerateArguments.prompt,
              negativePrompt |-> GenerateArguments.negativePrompt,
              mood |-> GenerateArguments.mood,
              bpm |-> GenerateArguments.bpm,
              userId |-> GenerateArguments.userId,
              styleSuggestions |-> GenerateArguments.styleSuggestions,
              pre |-> Controller]}
       /\ Rerender("generating", variations)
       /\ probes' = ProbesAfter(probes, "generating")
       /\ UNCHANGED <<videoFile, videoUrl, analysis, prompt, negativePrompt,
                      bpm, variations, selectedVariation, mergedVideoUrl>>

\* the Generate button of the edit view (while fewer than max requests have
\* been started)
ClickGenerateUpTo(max) ==
  /\ EditViewShown
  /\ nRequests < max
  /\ handleGenerate
  /\ UNCHANGED <<credits, userId, initCredits>>

ClickGenerate == ClickGenerateUpTo(MaxRequests)

\* handleGenerate after generateVariations resolved: setVariations, then
\* await refreshCredits() issues getCredits
GenerateResolve(c, result) ==
  /\ c \in inflight /\ c.kind = "generate"
  /\ variations' = result
  /\ nCalls' = nCalls
  /\ nRequests' = nRequests
  /\ inflight' = (inflight \ {c}) \cup
       {[id |-> c.id, kind |-> "credits", userId |-> userId]}
  /\ LoadingAfter(step)
  /\ UNCHANGED <<step, videoFile, videoUrl, analysis, prompt, negativePrompt,
                 bpm, selectedVariation, mergedVideoUrl, error, credits,
                 userId, initCredits, probes, validationError, selected,
                 playing>>

\* (mutant of GenerateReject: the catch issues the request once more)
GenerateRejectRetrying(c, failure) ==
  /\ c \in inflight /\ c.kind = "generate"
  /\ nCalls' = nCalls + 1
  /\ inflight' = (inflight \ {c}) \cup {[c EXCEPT !.id = nCalls + 1]}
  /\ UNCHANGED <<ctl, credits, userId, initCredits, nRequests, probes, views>>

\* (mutant of GenerateReject: the catch records the error and leaves the step)
GenerateRejectKeepingStep(c, failure) ==
  /\ c \in inflight /\ c.kind = "generate"
  /\ error' = ThrownMessage("generate", failure)
  /\ inflight' = inflight \ {c}
  /\ UNCHANGED <<step, videoFile, videoUrl, analysis, prompt, negativePrompt,
                 bpm, variations, selectedVariation, mergedVideoUrl, credits,
                 userId, initCredits, nCalls, nRequests, probes, views>>

\* handleGenerate catch: generateVariations threw
GenerateReject(c, failure) ==
  /\ c \in inflight /\ c.kind = "generate"
  /\ error' = ThrownMessage("generate", failure)
  /\ step' = "edit"
  /\ nCalls' = nCalls
  /\ nRequests' = nRequests
  /\ inflight' = inflight \ {c}
  /\ Rerender("edit", variations)
  /\ probes' = ProbesAfter(probes, "edit")
  /\ UNCHANGED <<videoFile, videoUrl, analysis, prompt, negativePrompt, bpm,
                 variations, selectedVariation, mergedVideoUrl, credits,
                 userId, initCredits>>

\* handleGenerate after await refreshCredits(): getCredits settled with o.
\* refreshCredits has no catch, so a throw of getCredits lands in
\* handleGenerate's catch.
RefreshSettle(c, o) ==
  /\ c \in inflight /\ c.kind = "credits"
  /\ nCalls' = nCalls
  /\ nRequests' = nRequests
  /\ inflight' = inflight \ {c}
  /\ IF CreditsResult(o).returns
     THEN /\ credits' = Some(CreditsResult(o).value)
          /\ step' = "pick"
          /\ error' = error
          /\ Rerender("pick", variations)
          /\ probes' = ProbesAfter(probes, "pick")
     ELSE /\ credits' = credits
          /\ error' = CreditsResult(o).message
          /\ step' = "edit"
          /\ Rerender("edit", variations)
          /\ probes' = ProbesAfter(probes, "edit")
  /\ UNCHANGED <<videoFile, videoUrl, analysis, prompt, negativePrompt, bpm,
                 variations, selectedVariation, mergedVideoUrl, userId,
                 initCredits>>

\* -------------------------------------------------------------------- pick
\* The picker is rendered when step === "pick".
PickViewShown == step = "pick"

Elements(seq) == {seq[i] : i \in 1..Len(seq)}

\* VariationPicker.togglePlay(variation) on one of the listed cards
TogglePlay(v) ==
  /\ PickViewShown
  /\ v \in Elements(variations)
  /\ IF playing = Some(v.file_id)
     THEN /\ playing' = Null
          /\ selected' = selected
     ELSE /\ playing' = Some(v.file_id)
          /\ selected' = v.file_id
  /\ UNCHANGED <<ctl, credits, userId, initCredits, inflight, nCalls, nRequests, probes, validationError, loading>>

\* <audio onEnded>
AudioEnded ==
  /\ PickViewShown
  /\ playing # Null
  /\ playing' = Null
  /\ UNCHANGED <<ctl, credits, userId, initCredits, inflight, nCalls, nRequests, probes, validationError, selected, loading>>

\* (mutant of handlePickVariation: the test of videoFile and analysis comes
\* after setError, setSelectedVariation and setStep instead of before them)
handlePickVariationGuardAfterSetters(v) ==
  /\ error' = ""
  /\ selectedVariation' = Some(v)
  /\ step' = "merging"
  /\ Rerender("merging", variations)
  /\ probes' = ProbesAfter(probes, "merging")
  /\ IF videoFile = Null \/ analysis = Null
     THEN UNCHANGED <<inflight, nCalls, nRequests>>
     ELSE /\ nCalls' = nCalls + 1
          /\ nRequests' = nRequests + 1
          /\ inflight' = inflight \cup
               {[id |-> FreshId, kind |-> "merge", file |-> Get(videoFile),
                 fileId |-> v.file_id, mixMode |-> "social",
                 segments |-> Get(analysis).segments]}
  /\ UNCHANGED <<videoFile, videoUrl, analysis, prompt, negativePrompt,
                 bpm, variations, mergedVideoUrl>>

\* Home.handlePickVariation(variation), up to its await
handlePickVariation(v) ==
  IF videoFile = Null \/ analysis = Null
  THEN UNCHANGED <<ctl, inflight, nCalls, nRequests, probes, views>>
  ELSE /\ error' = ""
       /\ selectedVariation' = Some(v)
       /\ step' = "merging"
       /\ nCalls' = nCalls + 1
       /\ nRequests' = nRequests + 1
       /\ inflight' = inflight \cup
            {[id |-> FreshId, kind |-> "merge", file |-> Get(videoFile),
              fileId |-> v.file_id, mixMode |-> "social",
              segments |-> Get(analysis).segments]}
       /\ Rerender("merging", variations)
       /\ probes' = ProbesAfter(probes, "merging")
       /\ UNCHANGED <<videoFile, videoUrl, analysis, prompt, negativePrompt,
                      bpm, variations, mergedVideoUrl>>

\* (mutant of HandleSelectUpTo: confirming picks the first variation listed,
\* whatever the selection)
HandleSelectFirstUpTo(max) ==
  /\ PickViewShown
  /\ nRequests < max
  /\ IF Len(variations) > 0
     THEN handlePickVariation(variations[1])
     ELSE UNCHANGED <<ctl, inflight, nCalls, nRequests, probes, views>>
  /\ UNCHANGED <<credits, userId, initCredits>>

\* VariationPicker.handleSelect: the confirm button
\*   const v = variations.find((v) => v.file_id === selected); if (v) onPick(v)
HandleSelectUpTo(max) ==
  /\ PickViewShown
  /\ nRequests < max
  /\ IF \E i \in 1..Len(variations) : variations[i].file_id = selected
     THEN LET i == CHOOSE i \in 1..Len(variations) :
                     /\ variations[i].file_id = selected
                     /\ \A j \in 1..(i - 1) : variations[j].file_id # selected
          IN handlePickVariation(variations[i])
     ELSE UNCHANGED <<ctl, inflight, nCalls, nRequests, probes, views>>
  /\ UNCHANGED <<credits, userId, initCredits>>

HandleSelect == HandleSelectUpTo(MaxRequests)

\* (mutant of PickerBack: going back seeds the composition from the analysis
\* again)
PickerBackReseeding ==
  /\ PickViewShown
  /\ step' = "edit"
  /\ IF analysis = Null
     THEN UNCHANGED <<prompt, negativePrompt, bpm>>
     ELSE SeedComposition(Get(analysis))
  /\ Rerender("edit", variations)
  /\ probes' = ProbesAfter(probes, "edit")
  /\ UNCHANGED <<videoFile, videoUrl, analysis, variations,
                 selectedVariation, mergedVideoUrl, error, credits, userId,
                 initCredits, inflight, nCalls, nRequests>>

\* VariationPicker onBack: () => setStep("edit")
PickerBack ==
  /\ PickViewShown
  /\ step' = "edit"
  /\ Rerender("edit", variations)
  /\ probes' = ProbesAfter(probes, "edit")
  /\ UNCHANGED <<videoFile, videoUrl, analysis, prompt, negativePrompt, bpm,
                 variations, selectedVariation, mergedVideoUrl, error,
                 credits, userId, initCredits, inflight, nCalls, nRequests>>

\* handlePickVariation after mergeVideoAudio resolved
MergeResolve(c, url) ==
  /\ c \in inflight /\ c.kind = "merge"
  /\ mergedVideoUrl' = url
  /\ step' = "done"
  /\ nCalls' = nCalls
  /\ nRequests' = nRequests
  /\ inflight' = inflight \ {c}
  /\ Rerender("done", variations)
  /\ probes' = ProbesAfter(probes, "done")
  /\ UNCHANGED <<videoFile, videoUrl, analysis, prompt, negativePrompt, bpm,
                 variations, selectedVariation, error, credits, userId,
                 initCredits>>

\* (mutant of MergeReject: the catch returns to edit, as handleGenerate's does)
MergeRejectToEdit(c, failure) ==
  /\ c \in inflight /\ c.kind = "merge"
  /\ error' = ThrownMessage("merge", failure)
  /\ step' = "edit"
  /\ inflight' = inflight \ {c}
  /\ Rerender("edit", variations)
  /\ probes' = ProbesAfter(probes, "edit")
  /\ UNCHANGED <<videoFile, videoUrl, analysis, prompt, negativePrompt, bpm,
                 variations, selectedVariation, mergedVideoUrl, credits,
                 userId, initCredits, nCalls, nRequests>>

\* handlePickVariation catch: mergeVideoAudio threw
MergeReject(c, failure) ==
  /\ c \in inflight /\ c.kind = "merge"
  /\ error' = ThrownMessage("merge", failure)
  /\ step' = "pick"
  /\ nCalls' = nCalls
  /\ nRequests' = nRequests
  /\ inflight' = inflight \ {c}
  /\ Rerender("pick", variations)
  /\ probes' = ProbesAfter(probes, "pick")
  /\ UNCHANGED <<videoFile, videoUrl, analysis, prompt, negativePrompt, bpm,
                 variations, selectedVariation, mergedVideoUrl, credits,
                 userId, initCredits>>

\* ------------------------------------------------------------------- reset
\* (mutant of handleReset: the bpm is not put back to its default)
handleResetKeepingBpm ==
  /\ step' = "upload"
  /\ videoFile' = Null
  /\ videoUrl' = ""
  /\ analysis' = Null
  /\ prompt' = ""
  /\ negativePrompt' = ""
  /\ bpm' = bpm
  /\ variations' = <<>>
  /\ selectedVariation' = Null
  /\ mergedVideoUrl' = ""
  /\ error' = ""

\* Home.handleReset
handleReset ==
  /\ step' = "upload"
  /\ videoFile' = Null
  /\ videoUrl' = ""
  /\ analysis' = Null
  /\ prompt' = ""
  /\ negativePrompt' = ""
  /\ bpm' = DEFAULT_BPM
  /\ variations' = <<>>
  /\ selectedVariation' = Null
  /\ mergedVideoUrl' = ""
  /\ error' = ""

\* The done view is rendered when step === "done" && mergedVideoUrl.
DoneViewShown == step = "done" /\ mergedVideoUrl # ""

\* (mutant of ClickReset: the reset also forgets the credits balance)
ClickResetClearingCredits ==
  /\ EditViewShown \/ DoneViewShown
  /\ handleReset
  /\ Rerender("upload", <<>>)
  /\ probes' = ProbesAfter(probes, "upload")
  /\ credits' = Null
  /\ UNCHANGED <<userId, initCredits, inflight, nCalls, nRequests>>

\* (mutant of ClickReset: the reset mints a new identity token)
ClickResetNewIdentity ==
  /\ EditViewShown \/ DoneViewShown
  /\ handleReset
  /\ Rerender("upload", <<>>)
  /\ probes' = ProbesAfter(probes, "upload")
  /\ userId' = "uuid-2"
  /\ UNCHANGED <<credits, initCredits, inflight, nCalls, nRequests>>

\* Back in the edit view, "Create another soundtrack" in the done view
ClickReset ==
  /\ EditViewShown \/ DoneViewShown
  /\ handleReset
  /\ Rerender("upload", <<>>)
  /\ probes' = ProbesAfter(probes, "upload")
  /\ UNCHANGED <<credits, userId, initCredits, inflight, nCalls, nRequests>>

\* the dismiss button of the error banner: () => setError("")
DismissError ==
  /\ error # ""
  /\ error' = ""
  /\ UNCHANGED <<step, videoFile, videoUrl, analysis, prompt, negativePrompt,
                 bpm, variations, selectedVariation, mergedVideoUrl, credits,
                 userId, initCredits, inflight, nCalls, nRequests, probes,
                 views>>

\* ----------------------------------------------------------------- credits
\* useEffect(() => { initializeCredits(userId).then(setCredits) }, []):
\* the promise settles; a rejection has no handler.
InitCreditsSettle(o) ==
  /\ initCredits.status = "pending"
  /\ IF CreditsResult(o).returns
     THEN /\ credits' = Some(CreditsResult(o).value)
          /\ initCredits' = [initCredits EXCEPT !.status = "fulfilled"]
          /\ LoadingAfter(step)
     ELSE /\ credits' = credits
          /\ initCredits' =
               [initCredits EXCEPT !.status = "unhandled rejection"]
          /\ UNCHANGED loading
  /\ UNCHANGED <<ctl, userId, inflight, nCalls, nRequests, probes,
                 validationError, selected, playing>>

\* ------------------------------------------------------------ specification
Calls(kind) == {c \in inflight : c.kind = kind}

Next ==
  \/ \E f \in Files : HandleFile(f)
  \/ \E f \in Files, live \in BOOLEAN : ProbeLoaded(f, live)
  \/ \E c \in Calls("analyze") : AnalyzeResolve(c, AnalysisOf(c.file))
  \/ \E c \in Calls("analyze"), x \in Failures : AnalyzeReject(c, x)
  \/ \E v \in UserPrompts : SetPrompt(v)
  \/ \E v \in UserNegativePrompts : SetNegativePrompt(v)
  \/ \E v \in UserBpms : SetBpm(v)
  \/ ClickGenerate
  \/ \E c \in Calls("generate"), r \in VariationResults : GenerateResolve(c, r)
  \/ \E c \in Calls("generate"), x \in Failures : GenerateReject(c, x)
  \/ \E c \in Calls("credits"), o \in CreditsOutcomes : RefreshSettle(c, o)
  \/ \E v \in Elements(variations) : TogglePlay(v)
  \/ AudioEnded
  \/ HandleSelect
  \/ PickerBack
  \/ \E c \in Calls("merge"), u \in MergeUrls : MergeResolve(c, u)
  \/ \E c \in Calls("merge"), x \in Failures : MergeReject(c, x)
  \/ ClickReset
  \/ DismissError
  \/ \E o \in CreditsOutcomes : InitCreditsSettle(o)

Spec == Init /\ [][Next]_vars

\* ------------------------------------------------------ calls that settle
\* A pending promise of fetch settles: the awaiting handler continues after
\* its await or in its catch.
CallSettles ==
  \/ \E c \in Calls("analyze") : AnalyzeResolve(c, AnalysisOf(c.file))
  \/ \E c \in Calls("analyze"), x \in Failures : AnalyzeReject(c, x)
  \/ \E c \in Calls("generate"), r \in VariationResults : GenerateResolve(c, r)
  \/ \E c \in Calls("generate"), x \in Failures : GenerateReject(c, x)
  \/ \E c \in Calls("credits"), o \in CreditsOutcomes : RefreshSettle(c, o)
  \/ \E c \in Calls("merge"), u \in MergeUrls : MergeResolve(c, u)
  \/ \E c \in Calls("merge"), x \in Failures : MergeReject(c, x)
  \/ \E o \in CreditsOutcomes : InitCreditsSettle(o)

\* The program under the assumption that no issued call stays pending for
\* ever. Nothing is assumed of the user or of the duration probes.
LiveSpec == Init /\ [][Next]_vars /\ WF_vars(CallSettles)

\* ------------------------------------------------------- late-probe races
\* The same program followed further along the runs in which a duration probe
\* fires late: two valid files, no edits, a backend that never fails, and up
\* to MaxRaceRequests requests.
RaceFiles == {"clip.mp4", "edge.mov"}
RaceVariations == <<Variation("a1"), Variation("a2"), Variation("a3")>>

RaceNext ==
  \/ \E f \in RaceFiles : HandleFileUpTo(f, MaxRaceRequests)
  \/ \E f \in RaceFiles, live \in BOOLEAN : ProbeLoaded(f, live)
  \/ \E c \in Calls("analyze") : AnalyzeResolve(c, AnalysisOf(c.file))
  \/ ClickGenerateUpTo(MaxRaceRequests)
  \/ \E c \in Calls("generate") : GenerateResolve(c, RaceVariations)
  \/ \E c \in Calls("credits"), v \in CreditValues :
        RefreshSettle(c, [kind |-> "ok", credits |-> v])
  \/ HandleSelectUpTo(MaxRaceRequests)
  \/ \E c \in Calls("merge"), u \in MergeUrls : MergeResolve(c, u)
  \/ ClickReset

RaceSpec == Init /\ [][RaceNext]_vars

\* ------------------------------------------------- a second generation
\* The same program followed through a failed merge, Back to the edit view
\* and a second generate call: one valid file, no edits, no reset, a backend
\* whose merge may fail and whose generate call returns one of two
\* sequences, and up to MaxRetryRequests requests.
RetryFile == "clip.mp4"
RetryVariationResults ==
  { <<Variation("a1"), Variation("a2"), Variation("a3")>>,
    <<Variation("b1")>> }

RetryNext ==
  \/ HandleFileUpTo(RetryFile, MaxRetryRequests)
  \/ \E live \in BOOLEAN : ProbeLoaded(RetryFile, live)
  \/ \E c \in Calls("analyze") : AnalyzeResolve(c, AnalysisOf(c.file))
  \/ ClickGenerateUpTo(MaxRetryRequests)
  \/ \E c \in Calls("generate"), r \in RetryVariationResults :
        GenerateResolve(c, r)
  \/ \E c \in Calls("credits"), v \in CreditValues :
        RefreshSettle(c, [kind |-> "ok", credits |-> v])
  \/ \E v \in Elements(variations) : TogglePlay(v)
  \/ HandleSelectUpTo(MaxRetryRequests)
  \/ PickerBack
  \/ \E c \in Calls("merge"), u \in MergeUrls : MergeResolve(c, u)
  \/ \E c \in Calls("merge") : MergeReject(c, "detail")
  \/ DismissError

RetrySpec == Init /\ [][RetryNext]_vars

\* ------------------------------------------------------ the substep timers
\* The pending timeout of LoadingState with the least delay fires:
\* setActiveIndex(i). Only LoadingState renders again; Home does not, so the
\* props and the other timeouts stay as they are.
TimerFires ==
  /\ timers # {}
  /\ \E i \in timers :
       /\ \A j \in timers : Cumulative(step, i) <= Cumulative(step, j)
       /\ activeIndex' = i
       /\ timers' = timers \ {i}
  /\ UNCHANGED <<ctl, credits, userId, initCredits, inflight, nCalls,
                 nRequests, probes, validationError, selected, playing>>

\* The program with the timeouts of its loading views. (Spec leaves them
\* pending: no handler of Home reads activeIndex.)
LoadingNext == Next \/ TimerFires

LoadingSpec == Init /\ [][LoadingNext]_vars

\* ------------------------------------------------- the intents as functions
\* The intent handlers of Home as functions of the controller state: the
\* cells are drawn from a bounded set of values, and one handler is invoked
\* on them.
IntentInit ==
  /\ step \in Steps
  /\ videoFile \in {Null, Some("clip.mp4")}
  /\ videoUrl = IF videoFile = Null THEN "" ELSE BlobUrl(Get(videoFile))
  /\ analysis \in {Null, Some(AnalysisOf("clip.mp4"))}
  /\ prompt \in {""} \cup UserPrompts
  /\ negativePrompt = ""
  /\ bpm \in {DEFAULT_BPM} \cup UserBpms
  /\ variations \in VariationResults
  /\ selectedVariation \in {Null, Some(Variation("a1"))}
  /\ mergedVideoUrl \in {""} \cup MergeUrls
  /\ error \in {"", GenericMessage("generate")}
  /\ credits = Null
  /\ userId \in UserIds
  /\ initCredits = [status |-> "pending", userId |-> userId]
  /\ inflight = {}
  /\ nCalls = 0
  /\ nRequests = 0
  /\ probes = [k \in ProbeKeys |-> 0]
  /\ validationError = ""
  /\ selected = IF step = "pick" THEN FirstId(variations) ELSE ""
  /\ playing = Null
  /\ activeIndex = 0
  /\ timers = TimersOf(step)

\* onGenerate()
InvokeGenerate ==
  /\ nCalls = 0
  /\ handleGenerate
  /\ UNCHANGED <<credits, userId, initCredits>>

\* onPick(variation)
InvokePick(v) ==
  /\ nCalls = 0
  /\ handlePickVariation(v)
  /\ UNCHANGED <<credits, userId, initCredits>>

IntentNext ==
  \/ InvokeGenerate
  \/ \E v \in {Variation("a1"), Variation("a2")} : InvokePick(v)

IntentSpec == IntentInit /\ [][IntentNext]_vars

\* ================================================================== claims
FlowCalls == {c \in inflight : c.kind \in {"analyze", "generate", "merge"}}

Wiped ==
  /\ step = "upload"
  /\ videoFile = Null
  /\ videoUrl = ""
  /\ analysis = Null
  /\ prompt = ""
  /\ negativePrompt = ""
  /\ bpm = 120
  /\ variations = <<>>
  /\ selectedVariation = Null
  /\ mergedVideoUrl = ""
  /\ error = ""

\* C1: a reset intent, in whatever state it is raised, leaves the controller
\* with step = upload, no video file, no preview URL, no analysis, empty
\* prompt and negative prompt, bpm = 120, no variations, no selection, no
\* merged URL and no error.
C1_ResetWipes == [][ClickReset => Wiped']_vars

\* C1 witness: a reset has acted after an upload (only a reset clears the
\* stored video file once an upload intent has stored one).
C1_Witness == nCalls > 0 /\ Wiped

\* C2: the resolution handlers are unguarded. Whenever a pending analyze,
\* generate or merge call settles, whatever the step is at that moment, its
\* handler writes its result (or its error) and its step into the controller.
C2_UnguardedResolution ==
  [][\A c \in FlowCalls :
       c \notin inflight' =>
         CASE c.kind = "analyze" ->
                \/ step' = "edit" /\ analysis' = Some(AnalysisOf(c.file))
                \/ step' = "upload" /\ error' = ThrownMessage("analyze", "detail")
                \/ step' = "upload" /\ error' = ThrownMessage("analyze", "nodetail")
                \/ step' = "upload" /\ error' = ThrownMessage("analyze", "badbody")
                \/ step' = "upload" /\ error' = ThrownMessage("analyze", "network")
           [] c.kind = "generate" ->
                \/ variations' \in VariationResults /\ step' = step
                \/ step' = "edit" /\ error' \in {ThrownMessage("generate", x) : x \in Failures}
           [] c.kind = "merge" ->
                \/ step' = "done" /\ mergedVideoUrl' \in MergeUrls
                \/ step' = "pick" /\ error' \in {ThrownMessage("merge", x) : x \in Failures}
    ]_vars

\* C2 witness: after a reset wiped the state, an analyze call dispatched
\* before the reset has resolved and put its analysis and step edit back,
\* while the video file is still the null the reset left.
C2_Witness == videoFile = Null /\ analysis # Null /\ step = "edit"

\* C3 (as claimed): at most one of the long-running backend calls (analyze,
\* generate, merge) is outstanding in every reachable state.
C3_AtMostOneCallOutstanding == Cardinality(FlowCalls) <= 1

\* C4 (as claimed): when the generate call fails, the controller state equals
\* the state before the generate intent except for the error message.
C4_GenerateFailureRestoresState ==
  [][\A c \in Calls("generate"), x \in Failures :
       GenerateReject(c, x) => Controller' = [c.pre EXCEPT !.error = error']
    ]_vars

\* C5 (as claimed): after a successful generate call a failure of the credits
\* refresh is swallowed: no error is recorded, the variations are kept and the
\* step becomes pick.
C5_RefreshFailureSwallowed ==
  [][\A c \in Calls("credits"), o \in CreditsOutcomes :
       (o.kind # "ok" /\ RefreshSettle(c, o)) =>
         error' = error /\ variations' = variations /\ step' = "pick"
    ]_vars

\* C6 (as claimed): the step does not stay at generating while the credits
\* refresh that follows a resolved generate call is pending.
C6_RefreshDoesNotHoldGenerating ==
  Calls("credits") = {} \/ step # "generating"

\* C7 (as claimed): initializeCredits never rejects, so the credits load on
\* mount leaves no unhandled rejection and, once settled, no null balance.
C7_CreditsNeverReject ==
  /\ initCredits.status # "unhandled rejection"
  /\ initCredits.status # "pending" => credits # Null

\* C8 (as claimed): when the analyze call fails, step is upload, the error is
\* recorded and every other controller value is as before the upload intent.
C8_AnalyzeFailureRestoresState ==
  [][\A c \in Calls("analyze"), x \in Failures :
       AnalyzeReject(c, x) =>
         Controller' = [c.pre EXCEPT !.error = error', !.step = "upload"]
    ]_vars

\* C8 (amended): when the analyze call fails, the handler sets step to upload
\* and records the error message and changes nothing else: analysis,
\* composition, variations, selection and merged URL are as they were when
\* the call failed, and the video file and preview URL stay as an upload
\* intent stored them (they are not restored).
C8_AnalyzeFailureKeepsUpload ==
  [][\A c \in Calls("analyze"), x \in Failures :
       AnalyzeReject(c, x) =>
         /\ step' = "upload"
         /\ error' = ThrownMessage("analyze", x)
         /\ UNCHANGED <<videoFile, videoUrl, analysis, prompt, negativePrompt,
                        bpm, variations, selectedVariation, mergedVideoUrl>>
    ]_vars

\* C8 witness: the first upload failed; the file and preview URL of the
\* failed upload are still stored in step upload.
C8_Witness ==
  /\ step = "upload" /\ error = "Analysis failed"
  /\ videoFile = Some("clip.mp4") /\ videoUrl = "blob:clip.mp4"
  /\ analysis = Null

\* C9: when the merge call fails, step is pick and the error message is
\* recorded, and neither the failure nor the pick intent before it changes
\* mergedVideoUrl, the variation sequence, the analysis or the video file.
C9_MergeFailureReturnsToPick ==
  [][/\ \A c \in Calls("merge"), x \in Failures :
          MergeReject(c, x) =>
            /\ step' = "pick"
            /\ error' = ThrownMessage("merge", x)
            /\ UNCHANGED <<mergedVideoUrl, variations, analysis, videoFile>>
     /\ (HandleSelect /\ nCalls' # nCalls) =>
            /\ step' = "merging"
            /\ UNCHANGED <<mergedVideoUrl, variations, analysis, videoFile>>
    ]_vars

\* C9 witness: a merge has failed and the picker is back with the same
\* variations, analysis and file, ready for another pick.
C9_Witness ==
  /\ step = "pick" /\ error = "Merge failed"
  /\ mergedVideoUrl = "" /\ Len(variations) = 3
  /\ analysis # Null /\ videoFile # Null
  /\ selectedVariation # Null /\ selected = FirstId(variations)

\* C10: when the analyze call resolves, in that one step the controller stores
\* the response as analysis, sets prompt, negativePrompt and bpm to the
\* response's primary_prompt, negative_prompt and bpm, and enters step edit.
C10_AnalyzeResolveSeeds ==
  [][\A c \in Calls("analyze") :
       c \notin inflight' /\ step' = "edit" =>
         LET r == AnalysisOf(c.file)
         IN /\ analysis' = Some(r)
            /\ prompt' = r.primary_prompt
            /\ negativePrompt' = r.negative_prompt
            /\ bpm' = r.bpm
    ]_vars

\* C10 witness: the edit step right after an analysis whose bpm is not the
\* default, with the composition seeded from it.
C10_Witness ==
  /\ step = "edit" /\ analysis = Some(AnalysisOf("edge.mov"))
  /\ bpm = 90 /\ prompt = "soft piano" /\ negativePrompt = "no drums"

\* C11: a generate intent issues the generate call with the prompt, the
\* negative prompt and the bpm as they are in the controller at the moment of
\* the intent, the analysis's overall_mood, the session identity and the
\* analysis's style_suggestions (the empty sequence when the analysis has
\* none).
C11_GenerateUsesEditedComposition ==
  [][(ClickGenerate /\ analysis # Null) =>
       \E c \in inflight' \ inflight :
         /\ c.kind = "generate"
         /\ c.prompt = prompt
         /\ c.negativePrompt = negativePrompt
         /\ c.bpm = bpm
         /\ c.mood = Get(analysis).overall_mood
         /\ c.userId = userId
         /\ c.styleSuggestions =
              IF Get(analysis).style_suggestions = Null THEN <<>>
              ELSE Get(analysis).style_suggestions[1]
    ]_vars

\* C11 witness: a generate call is pending that carries an edited prompt and
\* bpm, different from the defaults of the analysis, and the empty sequence
\* for an analysis without style_suggestions.
C11_Witness ==
  \E c \in Calls("generate") :
    /\ analysis = Some(AnalysisOf("edge.mov"))
    /\ c.prompt = "lofi beat" /\ c.bpm = 140
    /\ c.negativePrompt = "no drums"
    /\ c.styleSuggestions = <<>>

\* C12 (as claimed): when the generate call resolves, the stored variation
\* sequence becomes the response's sequence (replacing the previous one), and
\* the handler of that resolution, when it completes, leaves the step at pick
\* with that sequence still stored.
C12_GenerateResolveEntersPick ==
  [][/\ \A c \in Calls("generate"), r \in VariationResults :
          GenerateResolve(c, r) => variations' = r
     /\ \A c \in Calls("credits"), o \in CreditsOutcomes :
          RefreshSettle(c, o) => step' = "pick" /\ variations' = variations
    ]_vars

\* the member of the current sequence that the confirm button picks
SelectedMembers == {v \in Elements(variations) : v.file_id = selected}

\* C13 (as claimed): whenever the user confirms a selected member of the
\* current variation sequence, a merge call is issued with the stored video
\* file, that member's file_id, mix mode "social" and the segments of the
\* analysis, and when a merge call succeeds selectedVariation is the
\* variation the call was issued for.
C13_PickIssuesMergeForSelection ==
  [][/\ (HandleSelectUpTo(MaxRaceRequests) /\ SelectedMembers # {}) =>
          \E c \in inflight' \ inflight :
            /\ c.kind = "merge"
            /\ videoFile # Null /\ c.file = Get(videoFile)
            /\ c.fileId = selected
            /\ c.mixMode = "social"
            /\ analysis # Null /\ c.segments = Get(analysis).segments
            /\ selectedVariation' \in {Some(v) : v \in SelectedMembers}
     /\ \A c \in Calls("merge"), u \in MergeUrls :
          MergeResolve(c, u) =>
            /\ selectedVariation' # Null
            /\ Get(selectedVariation').file_id = c.fileId
    ]_vars

\* C14 (as claimed): when a merge call resolves, mergedVideoUrl becomes the
\* response's video_url and the step becomes done; and while the done view is
\* shown, every step other than a reset leaves mergedVideoUrl, the target of
\* the download link, as it is.
C14_DoneKeepsMergedUrl ==
  [][/\ \A c \in Calls("merge"), u \in MergeUrls :
          MergeResolve(c, u) => mergedVideoUrl' = u /\ step' = "done"
     /\ (DoneViewShown /\ ~ClickReset /\ step' = "done") =>
          mergedVideoUrl' = mergedVideoUrl
    ]_vars

Intermediate == {"analyzing", "generating", "merging"}

CallKindOf(s) ==
  CASE s = "analyzing" -> "analyze"
    [] s = "generating" -> "generate"
    [] s = "merging" -> "merge"

\* C15 (as claimed): an intermediate step is entered only in a step that
\* issues its backend call, and it is left only in a step in which that very
\* call (the last one issued; for generating, the handler of that call
\* finishing its credits refresh) settles.
C15_IntermediateStepsOwnedByCall ==
  [][/\ (step' \in Intermediate /\ step' # step) =>
          \E c \in inflight' \ inflight :
            c.kind = CallKindOf(step') /\ c.id = nCalls'
     /\ (step \in Intermediate /\ step' # step) =>
          \E c \in inflight \ inflight' :
            c.id = nCalls /\ c.kind \in {CallKindOf(step), "credits"}
    ]_vars

\* C16: a generate intent raised while analysis is null is a no-op: no call
\* is issued and the step, the error and every other controller cell are
\* unchanged.
C16_GenerateWithoutAnalysisIsNoOp ==
  [][(InvokeGenerate /\ analysis = Null) =>
       UNCHANGED <<ctl, inflight, nCalls>>
    ]_vars

\* C16 witness: a controller state with no analysis, an error message and
\* step edit, on which the generate intent has issued no call.
C16_Witness ==
  /\ analysis = Null /\ step = "edit" /\ error = "Generation failed"
  /\ variations # <<>> /\ inflight = {}

\* C17: a pick intent raised while videoFile is null or analysis is null
\* changes nothing: no merge call is issued, selectedVariation is not
\* recorded, and the step and the error are unchanged.
C17_PickWithoutFileOrAnalysisIsNoOp ==
  [][\A v \in {Variation("a1"), Variation("a2")} :
       (InvokePick(v) /\ (videoFile = Null \/ analysis = Null)) =>
         UNCHANGED <<ctl, inflight, nCalls>>
    ]_vars

\* C17 witness: the picker's step with a stored video file but no analysis,
\* no selection recorded and an error message, on which the pick intent has
\* issued no call.
C17_Witness ==
  /\ step = "pick" /\ videoFile # Null /\ analysis = Null
  /\ selectedVariation = Null /\ error = "Generation failed"
  /\ Len(variations) = 3 /\ inflight = {}

\* C18 (as claimed): whenever the analysis of a newly uploaded file is
\* stored in place of the analysis of another file, the variation sequence,
\* the selection and the merged export of the previous video are gone.
C18_ReuploadInvalidatesDownstream ==
  [][\A c \in Calls("analyze") :
       (/\ AnalyzeResolve(c, AnalysisOf(c.file))
        /\ analysis # Null /\ Get(analysis).file # c.file) =>
         /\ variations' = <<>>
         /\ selectedVariation' = Null
         /\ mergedVideoUrl' = ""
    ]_vars

composition == <<prompt, negativePrompt, bpm>>

\* C19: the steps of a successful generate (the intent, the resolution of the
\* call, the credits refresh returning) leave videoFile, analysis and the
\* composition unchanged; the steps of a successful merge (the pick intent,
\* the resolution of the call) leave analysis, the composition and the
\* variations unchanged; Back from pick enters edit and leaves analysis, the
\* composition as edited and the variations unchanged.
C19_AdvancingKeepsEarlierResults ==
  [][/\ ClickGenerate => UNCHANGED <<videoFile, analysis, composition>>
     /\ \A c \in Calls("generate"), r \in VariationResults :
          GenerateResolve(c, r) =>
            UNCHANGED <<videoFile, analysis, composition>>
     /\ \A c \in Calls("credits"), o \in CreditsOutcomes :
          (RefreshSettle(c, o) /\ o.kind = "ok") =>
            UNCHANGED <<videoFile, analysis, composition, variations>>
     /\ HandleSelect => UNCHANGED <<analysis, composition, variations>>
     /\ \A c \in Calls("merge"), u \in MergeUrls :
          MergeResolve(c, u) =>
            UNCHANGED <<analysis, composition, variations>>
     /\ PickerBack =>
          step' = "edit" /\ UNCHANGED <<analysis, composition, variations>>
    ]_vars

\* C19 witness: back in the edit view from the picker, with the variations
\* still stored and the prompt and bpm as the user edited them, not the
\* defaults of the analysis.
C19_Witness ==
  /\ step = "edit" /\ error = "" /\ inflight = {}
  /\ Len(variations) = 3
  /\ analysis = Some(AnalysisOf("clip.mp4"))
  /\ prompt = "lofi beat" /\ bpm = 140
  /\ credits # Null

NoProbePending == \A k \in ProbeKeys : probes[k] = 0

\* C20: choosing a file whose MIME type is not one of video/mp4,
\* video/quicktime, video/webm, video/x-msvideo, whatever its size and
\* duration, shows the unsupported-format message that names the allowed
\* formats, starts no duration probe, raises no upload intent (the controller
\* is unchanged) and issues no backend call.
C20_UnsupportedTypeRejected ==
  [][\A f \in Files :
       (/\ FileType(f) \notin
              {"video/mp4", "video/quicktime", "video/webm", "video/x-msvideo"}
        /\ HandleFile(f)) =>
         /\ validationError' =
              "Unsupported format. Use MP4, MOV, WebM, or AVI."
         /\ UNCHANGED <<probes, ctl, inflight, nCalls>>
    ]_vars

\* C20 witness: the upload view shows the unsupported-format message and
\* nothing has been probed, uploaded or called.
C20_Witness ==
  /\ step = "upload"
  /\ validationError = "Unsupported format. Use MP4, MOV, WebM, or AVI."
  /\ NoProbePending /\ inflight = {} /\ nCalls = 0 /\ videoFile = Null

AllowedTypeFiles ==
  {f \in Files : FileType(f) \in
     {"video/mp4", "video/quicktime", "video/webm", "video/x-msvideo"}}

\* C21: choosing a file of an allowed type whose size exceeds 50 * 1024 *
\* 1024 bytes shows the too-large message that names the 50 MB ceiling,
\* starts no duration probe and issues no analyze call (the controller is
\* unchanged); a file of exactly 50 * 1024 * 1024 bytes passes the size test:
\* no message is shown and its duration probe starts.
C21_OversizeRejected ==
  [][\A f \in AllowedTypeFiles :
       HandleFile(f) =>
         /\ FileSize(f) > 50 * 1024 * 1024 =>
              /\ validationError' = "File too large. Maximum is 50MB."
              /\ UNCHANGED <<probes, ctl, inflight, nCalls>>
         /\ FileSize(f) = 50 * 1024 * 1024 =>
              /\ validationError' = ""
              /\ probes'[<<f, TRUE>>] = probes[<<f, TRUE>>] + 1
    ]_vars

\* C21 witness: a file of exactly 50 MB was chosen and its probe is pending,
\* then a file one byte larger was chosen and rejected with the too-large
\* message; nothing has been uploaded or called.
C21_Witness ==
  /\ step = "upload"
  /\ validationError = "File too large. Maximum is 50MB."
  /\ probes[<<"edge.mov", TRUE>>] = 1
  /\ inflight = {} /\ nCalls = 0 /\ videoFile = Null

\* C22: when the duration probe of a file reports more than 30 s (the type
\* and the size have passed, or no probe would exist), the upload view that
\* started the probe, if it is still mounted, shows the message with the
\* rounded duration and the 30 s ceiling (45.6 s reads "46s"), and in every
\* case no upload intent is raised: no analyze call, and the step and the
\* rest of the controller are unchanged.
C22_OverlongRejected ==
  [][\A f \in Files, live \in BOOLEAN :
       (FileDuration10(f) > 30 * 10 /\ ProbeLoaded(f, live)) =>
         /\ live => /\ step = "upload"
                    /\ f = "long.mp4" =>
                         validationError' = "Video is 46s. Maximum is 30s."
         /\ UNCHANGED <<ctl, inflight, nCalls>>
    ]_vars

\* C22 witness: the upload view shows the duration message after the probe
\* of the 45.6 s file fired; nothing has been uploaded or called.
C22_Witness ==
  /\ step = "upload"
  /\ validationError = "Video is 46s. Maximum is 30s."
  /\ NoProbePending /\ inflight = {} /\ nCalls = 0 /\ videoFile = Null

\* the files that pass all three tests
PassingFiles ==
  {f \in AllowedTypeFiles :
     FileSize(f) <= 50 * 1024 * 1024 /\ FileDuration10(f) <= 30 * 10}

ProbesOf(ps, f) == ps[<<f, TRUE>>] + ps[<<f, FALSE>>]

\* C23: for a file of an allowed type, at most 50 MB and at most 30 s,
\* choosing it shows no validation message, starts one duration probe and
\* issues no call yet; when that probe completes, exactly one analyze call is
\* issued, for that file, and the probe is used up, so each time the file is
\* chosen it is analyzed once, neither never nor twice.
C23_PassingFileAnalyzedOnce ==
  [][\A f \in PassingFiles :
       /\ HandleFile(f) =>
            /\ validationError' = ""
            /\ ProbesOf(probes', f) = ProbesOf(probes, f) + 1
            /\ inflight' = inflight /\ nCalls' = nCalls
       /\ \A live \in BOOLEAN :
            ProbeLoaded(f, live) =>
              /\ ProbesOf(probes', f) = ProbesOf(probes, f) - 1
              /\ nCalls' = nCalls + 1
              /\ \E c \in inflight' \ inflight :
                    /\ c.kind = "analyze" /\ c.file = f
                    /\ inflight' = inflight \cup {c}
    ]_vars

\* C23 witness: the file of exactly 50 MB and exactly 30 s was chosen, its
\* probe has completed and its one analyze call is pending.
C23_Witness ==
  /\ step = "analyzing" /\ videoFile = Some("edge.mov")
  /\ NoProbePending /\ nCalls = 1
  /\ \E c \in inflight : inflight = {c} /\ c.kind = "analyze" /\ c.file = "edge.mov"

\* the step in which a call of the given kind is rejected with failure x
Rejected(kind, x) ==
  CASE kind = "analyze" -> \E c \in Calls("analyze") : AnalyzeReject(c, x)
    [] kind = "generate" -> \E c \in Calls("generate") : GenerateReject(c, x)
    [] kind = "merge" -> \E c \in Calls("merge") : MergeReject(c, x)

FlowKinds == {"analyze", "generate", "merge"}

\* C24 (as claimed): after a failure of analyze, generate or merge (a non-2xx
\* response or a network exception) the error shown is the server's detail
\* when the error body parses and carries one, and otherwise exactly
\* "Analysis failed", "Generation failed" or "Merge failed".
C24_DetailOrGenericMessage ==
  [][\A kind \in FlowKinds, x \in Failures :
       Rejected(kind, x) =>
         error' = IF x = "detail" THEN "Quota exceeded"
                  ELSE CASE kind = "analyze" -> "Analysis failed"
                         [] kind = "generate" -> "Generation failed"
                         [] kind = "merge" -> "Merge failed"
    ]_vars

\* C24 (amended): the error shown is the server's detail when the body of
\* the non-2xx response parses and carries one; "Analysis failed",
\* "Generation failed" or "Merge failed" when that body does not parse;
\* "Video analysis failed", "Music generation failed" or "Video merge failed"
\* when it parses but carries no detail; and the message of the exception
\* itself after a network exception.
C24_MessageByFailure ==
  [][\A kind \in FlowKinds, x \in Failures :
       Rejected(kind, x) =>
         error' =
           CASE x = "detail" -> "Quota exceeded"
             [] x = "badbody" ->
                  (CASE kind = "analyze" -> "Analysis failed"
                     [] kind = "generate" -> "Generation failed"
                     [] kind = "merge" -> "Merge failed")
             [] x = "nodetail" ->
                  (CASE kind = "analyze" -> "Video analysis failed"
                     [] kind = "generate" -> "Music generation failed"
                     [] kind = "merge" -> "Video merge failed")
             [] x = "network" -> "Failed to fetch"
    ]_vars

\* C24 witness: a merge answered non-2xx with a body that parses but has no
\* detail, and the picker shows "Video merge failed".
C24_Witness ==
  /\ step = "pick" /\ error = "Video merge failed" /\ mergedVideoUrl = ""

\* C25: after a failure of analyze, generate or merge the controller is in
\* upload, edit or pick respectively with that step's view rendered, and the
\* same intent is offered again and would issue a call: the upload view
\* accepts a file; the edit view is shown with an analysis, so Generate
\* passes its guard; the picker lists a variation and file and analysis are
\* present, so picking passes its guard.
C25_FailureLeavesRetryableStep ==
  [][/\ (\E x \in Failures : Rejected("analyze", x)) => step' = "upload"
     /\ (\E x \in Failures : Rejected("generate", x)) =>
          /\ step' = "edit"
          /\ analysis' # Null
     /\ (\E x \in Failures : Rejected("merge", x)) =>
          /\ step' = "pick"
          /\ variations' # <<>>
          /\ videoFile' # Null /\ analysis' # Null
    ]_vars

\* C26: when every issued call eventually resolves or rejects, every
\* intermediate step is eventually left: analyzing leads to edit or upload,
\* generating leads to pick or edit, merging leads to done or pick.
C26_IntermediateStepsAreLeft ==
  /\ (step = "analyzing") ~> (step \in {"edit", "upload"})
  /\ (step = "generating") ~> (step \in {"pick", "edit"})
  /\ (step = "merging") ~> (step \in {"done", "pick"})

\* C26 witness: a run that went through analyzing, generating and merging and
\* left each of them: three calls issued, all settled, the result shown.
C26_Witness ==
  /\ step = "done" /\ nCalls = 3 /\ inflight = {} /\ mergedVideoUrl # ""

\* the identity token a call carries: its x-user-id header, Null when the
\* request has no such header
TokenOf(c) == IF "userId" \in DOMAIN c THEN Some(c.userId) ELSE Null

\* C27: the identity token never changes after it is minted (reset and
\* re-render included); the credits call on load and every analyze, generate
\* and refresh call newly issued carry that token; a merge call carries none.
C27_OneIdentityToken ==
  [][/\ userId' = userId
     /\ TokenOf(initCredits') = Some(userId)
     /\ \A c \in inflight' \ inflight :
          /\ c.kind \in {"analyze", "generate", "credits"} =>
               TokenOf(c) = Some(userId)
          /\ c.kind = "merge" => TokenOf(c) = Null
    ]_vars

\* C27 witness: the third call of the session, an analyze call, is pending
\* and carries the token the credits call on load carried.
C27_Witness ==
  /\ nCalls = 3 /\ step = "analyzing" /\ variations = <<>>
  /\ \E c \in inflight :
       c.kind = "analyze" /\ c.id = 3 /\ c.userId = initCredits.userId

\* the credits call made on load resolves
InitCreditsResolves ==
  \E o \in CreditsOutcomes : CreditsResult(o).returns /\ InitCreditsSettle(o)

\* the refresh awaited after a successful generate call resolves
RefreshResolves ==
  \E c \in Calls("credits"), o \in CreditsOutcomes :
     CreditsResult(o).returns /\ RefreshSettle(c, o)

\* C28: the credits balance changes only in a step in which the credits
\* call made on load resolves or the refresh following a successful generate
\* call resolves; every other step (upload, pick, merge, composition edits,
\* error dismissal, reset, failures) leaves it as it was.
C28_CreditsChangeOnlyOnLoadAndRefresh ==
  [][credits' # credits => InitCreditsResolves \/ RefreshResolves]_vars

\* C28 witness: the credits call on load was rejected, so the balance shown
\* was set by a refresh after a generate call, and a reset since then left it.
C28_Witness ==
  /\ credits = Some(3) /\ initCredits.status = "unhandled rejection"
  /\ Wiped /\ nCalls > 0 /\ inflight = {}

\* a step in which an upload, generate or pick intent is raised
IntentRaised ==
  \/ \E f \in Files, live \in BOOLEAN : ProbeLoaded(f, live)
  \/ ClickGenerate
  \/ HandleSelect

\* C29: an analyze, generate or merge request is issued only in a step that
\* raises an upload, generate or pick intent, and such a step issues exactly
\* one; the step in which a call is rejected issues none, so after a
\* rejection no such request appears until an intent is raised again.
C29_NoAutomaticRetry ==
  [][/\ (FlowCalls' \ FlowCalls # {} \/ nCalls' # nCalls) =>
          /\ IntentRaised
          /\ Cardinality(FlowCalls' \ FlowCalls) = 1
          /\ nCalls' = nCalls + 1
     /\ \A kind \in FlowKinds, x \in Failures :
          Rejected(kind, x) =>
            /\ FlowCalls' \subseteq FlowCalls
            /\ Cardinality(FlowCalls') = Cardinality(FlowCalls) - 1
            /\ nCalls' = nCalls
    ]_vars

\* C29 witness: the generate call was rejected and nothing is in flight: the
\* session has issued its analyze and its generate request and no other.
C29_Witness ==
  /\ step = "edit" /\ error = "Generation failed"
  /\ nCalls = 2 /\ inflight = {}

\* a step of generate or merge: the intent, or the settling of its call or
\* of the credits refresh
GenerateOrMergeStep ==
  \/ ClickGenerate
  \/ \E c \in Calls("generate"), r \in VariationResults : GenerateResolve(c, r)
  \/ \E c \in Calls("generate"), x \in Failures : GenerateReject(c, x)
  \/ \E c \in Calls("credits"), o \in CreditsOutcomes : RefreshSettle(c, o)
  \/ HandleSelect
  \/ \E c \in Calls("merge"), u \in MergeUrls : MergeResolve(c, u)
  \/ \E c \in Calls("merge"), x \in Failures : MergeReject(c, x)

\* C30: the stored analysis changes only when an analyze call resolves or on
\* reset; an edit of the prompt, the negative prompt or the bpm changes that
\* one composition field and leaves the other two and the stored analysis as
\* they were; no step of generate or merge changes the stored analysis.
C30_AnalysisImmutable ==
  [][/\ analysis' # analysis =>
          \/ ClickReset
          \/ \E c \in Calls("analyze") : AnalyzeResolve(c, AnalysisOf(c.file))
     /\ \A v \in UserPrompts :
          SetPrompt(v) =>
            prompt' = v /\ UNCHANGED <<analysis, negativePrompt, bpm>>
     /\ \A v \in UserNegativePrompts :
          SetNegativePrompt(v) =>
            negativePrompt' = v /\ UNCHANGED <<analysis, prompt, bpm>>
     /\ \A v \in UserBpms :
          SetBpm(v) =>
            bpm' = v /\ UNCHANGED <<analysis, prompt, negativePrompt>>
     /\ GenerateOrMergeStep => analysis' = analysis
    ]_vars

\* C30 witness: all three composition fields were edited and a generate call
\* resolved, and the stored analysis still has the values the analyze call
\* returned.
C30_Witness ==
  /\ step = "pick" /\ variations # <<>>
  /\ prompt = "lofi beat" /\ negativePrompt = "no guitar" /\ bpm = 140
  /\ analysis = Some(AnalysisOf("clip.mp4"))
  /\ Get(analysis).bpm = 128
  /\ Get(analysis).primary_prompt = "driving synth"
  /\ Get(analysis).negative_prompt = "no vocals"

\* C31: an upload intent (a probe of a file within the duration limit) stores
\* the file and its preview URL, clears the error and enters analyzing in the
\* step that issues the analyze call; a generate or pick intent that passes
\* its guard clears the error and enters generating or merging; and in every
\* state entered with step analyzing, generating or merging the error is
\* empty.
C31_IntentsClearError ==
  [][/\ \A f \in Files, live \in BOOLEAN :
          (FileDuration10(f) <= 30 * 10 /\ ProbeLoaded(f, live)) =>
            /\ videoFile' = Some(f)
            /\ videoUrl' = BlobUrl(f)
            /\ error' = ""
            /\ step' = "analyzing"
            /\ \E c \in inflight' \ inflight : c.kind = "analyze" /\ c.file = f
     /\ (ClickGenerate /\ nCalls' # nCalls) =>
          error' = "" /\ step' = "generating"
     /\ (HandleSelect /\ nCalls' # nCalls) =>
          error' = "" /\ step' = "merging"
     /\ step' \in {"analyzing", "generating", "merging"} => error' = ""
    ]_vars

\* C31 witness: an analyze call is pending whose upload intent was raised
\* while an error was shown, and the error is cleared.
C31_Witness ==
  /\ step = "analyzing" /\ error = ""
  /\ \E c \in inflight : c.kind = "analyze" /\ c.pre.error # ""

\* C32: in every reachable state whose step is edit, generating, pick,
\* merging or done, analysis and videoFile are both present (so the edit view
\* is never blank and a pick in step pick is never ignored).
C32_LaterStepsHaveFileAndAnalysis ==
  step \in {"edit", "generating", "pick", "merging", "done"} =>
    analysis # Null /\ videoFile # Null

\* C33: in every reachable state with an analysis stored, a video file is
\* stored and the analysis is the one the analyze call returns for that file;
\* and every pending merge call sends the segments of the analysis of the
\* file it uploads.
C33_AnalysisOfStoredFile ==
  /\ analysis # Null =>
       videoFile # Null /\ Get(analysis) = AnalysisOf(Get(videoFile))
  /\ \A c \in Calls("merge") : c.segments = AnalysisOf(c.file).segments

\* C34: in every reachable state selectedVariation is null or a member of
\* the current variation sequence.
C34_SelectionIsCurrentMember ==
  selectedVariation # Null => Get(selectedVariation) \in Elements(variations)

\* the members of the variation sequence whose file_id is the selection
Matching == {v \in Elements(variations) : v.file_id = selected}

\* C35: when the picker is mounted its selection is the file_id of the first
\* variation ("" for an empty sequence); while it stays mounted the selection
\* changes only by a preview of a listed variation, to that variation;
\* confirming with a matching member raises the pick intent with that member
\* (past the intent's guard: it is recorded as selectedVariation and the
\* merge call names its file_id); confirming with no matching member changes
\* nothing and issues no call.
C35_PickerSelection ==
  [][/\ (step # "pick" /\ step' = "pick") =>
          selected' = FirstId(variations')
     /\ (step = "pick" /\ step' = "pick" /\ selected' # selected) =>
          \E v \in Elements(variations) :
             TogglePlay(v) /\ selected' = v.file_id
     /\ (HandleSelect /\ Matching # {}
           /\ videoFile # Null /\ analysis # Null) =>
          /\ selectedVariation' # Null
          /\ Get(selectedVariation') \in Matching
          /\ \E c \in inflight' \ inflight :
                c.kind = "merge" /\ c.fileId = selected
     /\ (HandleSelect /\ Matching = {}) =>
          UNCHANGED <<ctl, inflight, nCalls>>
    ]_vars

\* C35 witness: the user previewed the second of three variations and
\* confirmed; the merge call for it is pending.
C35_Witness ==
  /\ step = "merging"
  /\ selectedVariation = Some(Variation("a2"))
  /\ variations[1] = Variation("a1")
  /\ \E c \in inflight : c.kind = "merge" /\ c.fileId = "a2"

\* C36: when a loading view with substeps is mounted its index is 0; while
\* it stays mounted (the step stays the same) the index stays within
\* 0..n-1 and each step leaves it where it is or advances it by one; and
\* where no loading view with substeps is mounted no timer is pending.
C36_SubstepsAdvanceInOrder ==
  [][/\ (step' # step /\ Len(Substeps(step')) >= 1) => activeIndex' = 0
     /\ (step' = step /\ Len(Substeps(step)) >= 1) =>
          /\ activeIndex' \in 0..(Len(Substeps(step)) - 1)
          /\ activeIndex' \in {activeIndex, activeIndex + 1}
     /\ Len(Substeps(step')) = 0 => timers' = {}
    ]_vars
====
